---- MODULE Spec2Model ----
(***************************************************************************)
(* Weather-Prediction-Model: the lag-feature builder and regressor bank    *)
(* (weather_prediction_model.py), the forecast routes of the web service   *)
(* (app.py) and the CSV-backed historical store (weather_data_analyzer.py).*)
(*                                                                         *)
(* Numbers are integers: observation values are small naturals, NaN is the *)
(* sentinel below, regressor outputs are in thousandths.                   *)
(***************************************************************************)
EXTENDS Integers, Sequences, FiniteSets, TLC

VARIABLES
  fdf,      \* Feature Builder: the DataFrame object handed to prepare_data
  fk,       \* Feature Builder: the n_steps argument of the calls
  fout,     \* Feature Builder: what the last prepare_data call returned
  model,    \* app.py: the global model (None, or its models and scalers)
  csv,      \* the file weather_data.csv
  resp,     \* the last response of /api/initialize or /api/predict
  init_called,   \* history: some /api/initialize request has been made
  init_succeeded, \* history: some /api/initialize request returned success
  current_data_file,    \* data/current_weather.csv: the rows under the header
  historical_data_file, \* data/historical_weather.csv: the rows under the header
  analysis_file,        \* data/weather_analysis.json
  now,      \* the clock (datetime.now()), in ticks
  sres,     \* the last call of the analyzer and what it returned
  stored,   \* history: the successful store_current_weather calls, in order
  api_key,  \* OPENWEATHER_API_KEY is set
  wresp,    \* the last response of a /api/weather/... route that fetches
  init_thread,     \* the request thread running /api/initialize
  predict_thread   \* the request thread running /api/predict

fvars == <<fdf, fk, fout>>

mvars == <<model, csv, resp, init_called, init_succeeded>>

svars == <<current_data_file, historical_data_file, analysis_file, now, sres, stored>>

wvars == <<api_key, wresp>>

cvars == <<init_thread, predict_thread>>

vars == <<fdf, fk, fout, model, csv, resp, init_called, init_succeeded,
          current_data_file, historical_data_file, analysis_file, now, sres, stored,
          api_key, wresp, init_thread, predict_thread>>

----------------------------------------------------------------------------
\* Bounds of the model
MaxRows == 10      \* longest observation table
MaxLag == 8        \* largest n_steps tried
MaxStore == 2      \* most rows appended to the logs
MaxTime == 2       \* last tick of the clock
TicksPerDay == 2   \* clock ticks in a calendar day

\* Program constants
LagDepth == 7      \* n_steps default of prepare_data

NaN == -1          \* a missing cell (pandas NaN / NaT)
None == "None"

----------------------------------------------------------------------------
\* Small helpers
Max(a, b) == IF a >= b THEN a ELSE b

Range(s) == {s[i] : i \in DOMAIN s}

RECURSIVE SeqOfSet(_)
\* the elements of a finite set of integers, ascending
SeqOfSet(S) ==
  IF S = {} THEN <<>>
  ELSE LET m == CHOOSE x \in S : \A y \in S : x <= y
       IN <<m>> \o SeqOfSet(S \ {m})

----------------------------------------------------------------------------
\* WeatherPredictionModel.__init__: the tracked attributes, in loop order
feature_columns == <<"temperature", "humidity", "wind_speed", "precipitation", "pressure">>

Attrs == Range(feature_columns)

AttrIdx(a) == CHOOSE j \in DOMAIN feature_columns : feature_columns[j] = a

\* The observation tables used as inputs: n daily rows, the value of a cell
\* is distinct per (row, column); one cell may be missing; a column may be
\* absent from the file.
Cell(t, c) == IF c = "date" THEN t ELSE 10 * t + AttrIdx(c)

AllCols == {"date"} \cup Attrs

MakeTable(n, cols, nanRow) ==
  [cols |-> cols,
   rows |-> [t \in 1..n |-> [c \in cols |->
               IF t = nanRow /\ c = "humidity" THEN NaN ELSE Cell(t, c)]],
   lagcols |-> <<>>]

ColumnSets == {AllCols, AllCols \ {"pressure"}, AllCols \ {"date"}}

Tables(maxn) ==
  {MakeTable(n, cols, 0) : n \in 0..maxn, cols \in ColumnSets}
  \cup {MakeTable(n, AllCols, 1) : n \in 1..maxn}

----------------------------------------------------------------------------
\* prepare_data

RECURSIVE Digits(_)
\* str(i): the decimal digits of i
Digits(i) == IF i < 10 THEN <<i>> ELSE Digits(i \div 10) \o <<i % 10>>

\* the name f'{col}_lag_{i}' ends with one of 'lag_1' .. 'lag_7'
EndsWithLag(lc) == \E j \in 1..7 : Digits(lc[2]) = <<j>>

\* the (col, i) pairs in the order the nested loops assign them
LoopCols(n_steps) ==
  [j \in 1..(Len(feature_columns) * n_steps) |->
     <<feature_columns[((j - 1) % Len(feature_columns)) + 1],
       ((j - 1) \div Len(feature_columns)) + 1>>]

\* df[col].shift(i), at row t
shift(df, col, i, t) == IF t - i >= 1 THEN df.rows[t - i][col] ELSE NaN

\* df.dropna(): the positions of the rows with no missing cell, in order
dropna_rawonly(df) ==
  SeqOfSet({t \in DOMAIN df.rows : \A c \in df.cols : df.rows[t][c] # NaN})

dropna(df) ==
  SeqOfSet({t \in DOMAIN df.rows :
              /\ \A c \in df.cols : df.rows[t][c] # NaN
              /\ \A j \in DOMAIN df.lagcols :
                   shift(df, df.lagcols[j][1], df.lagcols[j][2], t) # NaN})

NoFrame == [columns |-> <<>>, index |-> <<>>, values |-> <<>>]

\* The call returns X (columns, the index of the kept rows, their values,
\* column by column) and y; it adds the lag columns to the caller's df.
prepare_data(df, target_column, n_steps) ==
  IF ~(Attrs \subseteq df.cols)
  THEN [exc |-> "KeyError", df |-> df, X |-> NoFrame, y |-> <<>>]
  ELSE
    LET new == SelectSeq(LoopCols(n_steps), LAMBDA lc : lc \notin Range(df.lagcols))
        df1 == [df EXCEPT !.lagcols = df.lagcols \o new]
        kept == dropna(df1)
        feature_cols == SelectSeq(df1.lagcols, EndsWithLag)
    IN [exc |-> None,
        df |-> df1,
        X |-> [columns |-> feature_cols,
               index |-> kept,
               values |-> [r \in DOMAIN kept |->
                            [j \in DOMAIN feature_cols |->
                               shift(df1, feature_cols[j][1], feature_cols[j][2], kept[r])]]],
        y |-> [r \in DOMAIN kept |-> df1.rows[kept[r]][target_column]]]

----------------------------------------------------------------------------
\* train

\* train_test_split(X, y, test_size=0.2): the size of the test partition
n_test_of(n_samples) == (n_samples + 4) \div 5

\* self.models[target] = model / self.scalers[target] = scaler
store_entry(entries, e) == {x \in entries : x.target # e.target} \cup {e}

\* one pass of the loop body of train, for one target
train_target(bank, df, target, plot_fails) ==
  LET r == prepare_data(df, target, LagDepth)
      n == Len(r.X.index)
      n_train == n - n_test_of(n)
      e == [target |-> target, n_features |-> Len(r.X.columns), n_train |-> n_train]
      bank1 == [models |-> store_entry(bank.models, e),
                scalers |-> store_entry(bank.scalers, e)]
  IN IF r.exc # None THEN [exc |-> r.exc, bank |-> bank, df |-> r.df]
     ELSE IF n_train = 0 THEN [exc |-> "ValueError", bank |-> bank, df |-> r.df]
     ELSE [exc |-> IF plot_fails THEN "OSError" ELSE None, bank |-> bank1, df |-> r.df]

RECURSIVE train_from(_, _, _, _)
\* the loop of train from the j-th tracked attribute on; plot_fail_at is the
\* target whose plot cannot be saved (None: every plot is saved)
train_from(bank, df, j, plot_fail_at) ==
  IF j > Len(feature_columns) THEN [exc |-> None, bank |-> bank]
  ELSE LET s == train_target(bank, df, feature_columns[j], plot_fail_at = feature_columns[j])
       IN IF s.exc # None THEN [exc |-> s.exc, bank |-> s.bank]
          ELSE train_from(s.bank, s.df, j + 1, plot_fail_at)

train(bank, df, plot_fail_at) == train_from(bank, df, 1, plot_fail_at)

----------------------------------------------------------------------------
\* predict_next_day

\* round(pred, 2) on a value in thousandths: to the nearest hundredth, a tie
\* to the even one
round2(v) ==
  LET q == v \div 10
      r == v % 10
  IN IF r < 5 THEN 10 * q
     ELSE IF r > 5 THEN 10 * (q + 1)
     ELSE IF q % 2 = 0 THEN 10 * q ELSE 10 * (q + 1)

Lookup(entries, target) == CHOOSE x \in entries : x.target = target

Has(entries, target) == \E x \in entries : x.target = target

\* the loop body of predict_next_day for one target; raw is what the stored
\* regressor answers
predict_target(bank, df, target, raw, acc) ==
  LET r == prepare_data(df, target, LagDepth)
      n == Len(r.X.index)
  IN IF r.exc # None THEN [exc |-> r.exc, acc |-> acc, df |-> r.df]
     ELSE IF n = 0 THEN [exc |-> None, acc |-> acc, df |-> r.df]
     ELSE IF ~Has(bank.scalers, target) THEN [exc |-> "KeyError", acc |-> acc, df |-> r.df]
     ELSE IF Lookup(bank.scalers, target).n_features # Len(r.X.values[n])
            THEN [exc |-> "ValueError", acc |-> acc, df |-> r.df]
     ELSE IF ~Has(bank.models, target) THEN [exc |-> "KeyError", acc |-> acc, df |-> r.df]
     ELSE [exc |-> None,
           acc |-> [predictions |-> acc.predictions \cup
                                      {[target |-> target, value |-> round2(raw)]},
                    fed |-> acc.fed \cup
                              {[target |-> target, index |-> r.X.index[n],
                                columns |-> r.X.columns, values |-> r.X.values[n],
                                scaler |-> Lookup(bank.scalers, target),
                                model |-> Lookup(bank.models, target)]}],
           df |-> r.df]

RECURSIVE predict_from(_, _, _, _, _)
predict_from(bank, df, j, raw, acc) ==
  IF j > Len(feature_columns) THEN [exc |-> None, acc |-> acc]
  ELSE LET s == predict_target(bank, df, feature_columns[j], raw, acc)
       IN IF s.exc # None THEN [exc |-> s.exc, acc |-> s.acc]
          ELSE predict_from(bank, s.df, j + 1, raw, s.acc)

predict_next_day(bank, df, raw) ==
  predict_from(bank, df, 1, raw, [predictions |-> {}, fed |-> {}])

----------------------------------------------------------------------------
\* app.py: /api/initialize and /api/predict

EmptyBank == [models |-> {}, scalers |-> {}]

NoModel == [none |-> TRUE, bank |-> EmptyBank]

Unreadable == [readable |-> FALSE, cols |-> {}, rows |-> <<>>]

CsvFiles ==
  {Unreadable} \cup
  {[readable |-> TRUE, cols |-> t.cols, rows |-> t.rows] : t \in Tables(MaxRows)}

\* pd.read_csv('weather_data.csv'): a new DataFrame
read_csv(file) == [cols |-> file.cols, rows |-> file.rows, lagcols |-> <<>>]

\* what the regressor of an attribute may answer, in thousandths
RawPreds == {20004, 20015}

\* the targets whose plot may fail to be saved (None: no failure)
PlotFailures == {None, "humidity", "pressure"}

NotInitializedMsg == "Model not initialized. Please call /api/initialize first"

Response(op, code, status, message, read, called, out) ==
  [op |-> op, code |-> code, status |-> status, message |-> message,
   read_csv |-> read, bank_called |-> called,
   has_predictions |-> (op = "predict" /\ status = "success"),
   predictions |-> out.predictions, fed |-> out.fed]

NoOutput == [predictions |-> {}, fed |-> {}]

ForecastInit ==
  /\ model = NoModel
  /\ csv \in CsvFiles
  /\ resp = Response("none", 0, "none", "", FALSE, FALSE, NoOutput)
  /\ init_called = FALSE
  /\ init_succeeded = FALSE

initialize_model(plot_fail_at) ==
  /\ init_called' = TRUE
  /\ csv' = csv
  /\ UNCHANGED <<fvars, svars, wvars, cvars>>
  /\ IF ~csv.readable \/ "date" \notin csv.cols
     THEN /\ model' = model
          /\ init_succeeded' = init_succeeded
          /\ resp' = Response("initialize", 500, "error",
                              IF csv.readable THEN "KeyError" ELSE "FileNotFoundError",
                              TRUE, FALSE, NoOutput)
     ELSE LET t == train(EmptyBank, read_csv(csv), plot_fail_at)
          IN /\ model' = [none |-> FALSE, bank |-> t.bank]
             /\ IF t.exc = None
                THEN /\ init_succeeded' = TRUE
                     /\ resp' = Response("initialize", 200, "success",
                                         "Model initialized and trained successfully",
                                         TRUE, TRUE, NoOutput)
                ELSE /\ init_succeeded' = init_succeeded
                     /\ resp' = Response("initialize", 500, "error", t.exc,
                                         TRUE, TRUE, NoOutput)

predict_nocheck(raw) ==
  /\ UNCHANGED <<model, csv, init_called, init_succeeded>>
  /\ UNCHANGED <<fvars, svars, wvars, cvars>>
  /\ IF ~csv.readable \/ "date" \notin csv.cols
     THEN resp' = Response("predict", 500, "error",
                           IF csv.readable THEN "KeyError" ELSE "FileNotFoundError",
                           TRUE, FALSE, NoOutput)
     ELSE LET p == predict_next_day(model.bank, read_csv(csv), raw)
          IN resp' = IF p.exc = None
                     THEN Response("predict", 200, "success", "", TRUE, TRUE, p.acc)
                     ELSE Response("predict", 500, "error", p.exc, TRUE, TRUE, NoOutput)

predict(raw) ==
  /\ UNCHANGED <<model, csv, init_called, init_succeeded>>
  /\ UNCHANGED <<fvars, svars, wvars, cvars>>
  /\ IF model.none
     THEN resp' = Response("predict", 400, "error", NotInitializedMsg,
                           FALSE, FALSE, NoOutput)
     ELSE IF ~csv.readable \/ "date" \notin csv.cols
     THEN resp' = Response("predict", 500, "error",
                           IF csv.readable THEN "KeyError" ELSE "FileNotFoundError",
                           TRUE, FALSE, NoOutput)
     ELSE LET p == predict_next_day(model.bank, read_csv(csv), raw)
          IN resp' = IF p.exc = None
                     THEN Response("predict", 200, "success", "", TRUE, TRUE, p.acc)
                     ELSE Response("predict", 500, "error", p.exc, TRUE, TRUE, NoOutput)

\* the environment replaces weather_data.csv (generate_weather_data.py, or
\* the file is removed)
WriteCsv ==
  /\ csv' \in CsvFiles \ {csv}
  /\ UNCHANGED <<model, resp, init_called, init_succeeded>>
  /\ UNCHANGED <<fvars, svars, wvars, cvars>>

ForecastNext ==
  \/ \E plot_fail_at \in PlotFailures : initialize_model(plot_fail_at)
  \/ \E raw \in RawPreds : predict(raw)
  \/ WriteCsv

----------------------------------------------------------------------------
\* weather_data_analyzer.py: the historical store

RECURSIVE Sum(_)
Sum(xs) == IF xs = <<>> THEN 0 ELSE xs[1] + Sum(Tail(xs))

\* a / b to the nearest integer, a tie to the even one (a >= 0, b > 0)
RoundDiv(a, b) ==
  LET q == a \div b
      r == a % b
  IN IF 2 * r < b THEN q
     ELSE IF 2 * r > b THEN q + 1
     ELSE IF q % 2 = 0 THEN q ELSE q + 1

\* the payloads handed to store_current_weather; numbers are in tenths
Payload(city, temperature, description) ==
  [city |-> city, temperature |-> temperature, feels_like |-> temperature - 15,
   humidity |-> 600, pressure |-> 10130, wind_speed |-> 120,
   description |-> description, icon |-> "01d"]

NoIcon == [city |-> "Paris", temperature |-> 215, feels_like |-> 200,
           humidity |-> 600, pressure |-> 10130, wind_speed |-> 120,
           description |-> "clear sky"]

Payloads ==
  {Payload("Paris", 215, "clear sky"), Payload("Oslo", 50, "light rain"), NoIcon}

PayloadKeys == {"city", "temperature", "feels_like", "humidity", "pressure",
                "wind_speed", "description", "icon"}

\* datetime.now().strftime('%Y-%m-%d'): the calendar day of a tick
strftime_date(t) == t \div TicksPerDay

\* pd.to_datetime of a 'YYYY-MM-DD' text: midnight of that day
to_datetime(day) == day * TicksPerDay

\* the optional text arguments of the queries
NoArg == [kind |-> "none", day |-> 0]

InvalidDate == [kind |-> "invalid", day |-> 0]

DateArg(d) == [kind |-> "date", day |-> d]

DateArgs == {NoArg, InvalidDate} \cup {DateArg(d) : d \in 0..strftime_date(MaxTime)}

CityArgs == {None, "Paris"}

\* Python truth of an optional text argument
Truthy(c) == c # None /\ c # ""

StoreInit ==
  /\ current_data_file = <<>>
  /\ historical_data_file = <<>>
  /\ analysis_file = [written |-> FALSE, data_points |-> 0]
  /\ now = 0
  /\ sres = [op |-> "none"]
  /\ stored = <<>>

StoreIdle == StoreInit

store_current_weather_dedup(weather_data) ==
  /\ Len(stored) < MaxStore
  /\ IF ~(PayloadKeys \subseteq DOMAIN weather_data)
     THEN /\ UNCHANGED <<current_data_file, historical_data_file, stored>>
          /\ sres' = [op |-> "store", ok |-> FALSE]
     ELSE /\ current_data_file' =
            IF \E i \in DOMAIN current_data_file : current_data_file[i].city = weather_data.city
            THEN current_data_file
            ELSE Append(current_data_file,
                   [timestamp |-> now, city |-> weather_data.city,
                    temperature |-> weather_data.temperature,
                    feels_like |-> weather_data.feels_like,
                    humidity |-> weather_data.humidity,
                    pressure |-> weather_data.pressure,
                    wind_speed |-> weather_data.wind_speed,
                    description |-> weather_data.description,
                    icon |-> weather_data.icon])
          /\ historical_data_file' =
            IF \E i \in DOMAIN historical_data_file :
                 /\ historical_data_file[i].city = weather_data.city
                 /\ historical_data_file[i].date = strftime_date(now)
            THEN historical_data_file
            ELSE Append(historical_data_file,
                   [date |-> strftime_date(now), city |-> weather_data.city,
                    temperature |-> weather_data.temperature,
                    humidity |-> weather_data.humidity,
                    wind_speed |-> weather_data.wind_speed,
                    pressure |-> weather_data.pressure,
                    description |-> weather_data.description])
          /\ stored' = Append(stored, [payload |-> weather_data, at |-> now])
          /\ sres' = [op |-> "store", ok |-> TRUE]
  /\ UNCHANGED <<analysis_file, now>>
  /\ UNCHANGED <<fvars, mvars, wvars, cvars>>

store_current_weather(weather_data) ==
  /\ Len(stored) < MaxStore
  /\ IF ~(PayloadKeys \subseteq DOMAIN weather_data)
     THEN /\ UNCHANGED <<current_data_file, historical_data_file, stored>>
          /\ sres' = [op |-> "store", ok |-> FALSE]
     ELSE /\ current_data_file' =
            Append(current_data_file,
                   [timestamp |-> now, city |-> weather_data.city,
                    temperature |-> weather_data.temperature,
                    feels_like |-> weather_data.feels_like,
                    humidity |-> weather_data.humidity,
                    pressure |-> weather_data.pressure,
                    wind_speed |-> weather_data.wind_speed,
                    description |-> weather_data.description,
                    icon |-> weather_data.icon])
          /\ historical_data_file' =
            Append(historical_data_file,
                   [date |-> strftime_date(now), city |-> weather_data.city,
                    temperature |-> weather_data.temperature,
                    humidity |-> weather_data.humidity,
                    wind_speed |-> weather_data.wind_speed,
                    pressure |-> weather_data.pressure,
                    description |-> weather_data.description])
          /\ stored' = Append(stored, [payload |-> weather_data, at |-> now])
          /\ sres' = [op |-> "store", ok |-> TRUE]
  /\ UNCHANGED <<analysis_file, now>>
  /\ UNCHANGED <<fvars, mvars, wvars, cvars>>

\* pd.read_csv(historical_data_file) followed by
\* df['date'] = pd.to_datetime(df['date'])
read_historical(file) == [i \in DOMAIN file |-> [file[i] EXCEPT !.date = to_datetime(file[i].date)]]

\* df[df['city'] == city]
filter_city(df, city) == SelectSeq(df, LAMBDA r : r.city = city)

historical_exclusive_end(file, city, start_date, end_date) ==
  IF start_date.kind = "invalid" \/ end_date.kind = "invalid" THEN <<>>
  ELSE
    LET df0 == read_historical(file)
        df1 == IF Truthy(city) THEN filter_city(df0, city) ELSE df0
        df2 == IF start_date.kind = "date"
               THEN SelectSeq(df1, LAMBDA r : r.date >= to_datetime(start_date.day))
               ELSE df1
        df3 == IF end_date.kind = "date"
               THEN SelectSeq(df2, LAMBDA r : r.date < to_datetime(end_date.day))
               ELSE df2
    IN df3

\* an unparsable date makes pd.to_datetime raise: the except branch returns []
historical(file, city, start_date, end_date) ==
  IF start_date.kind = "invalid" \/ end_date.kind = "invalid" THEN <<>>
  ELSE
    LET df0 == read_historical(file)
        df1 == IF Truthy(city) THEN filter_city(df0, city) ELSE df0
        df2 == IF start_date.kind = "date"
               THEN SelectSeq(df1, LAMBDA r : r.date >= to_datetime(start_date.day))
               ELSE df1
        df3 == IF end_date.kind = "date"
               THEN SelectSeq(df2, LAMBDA r : r.date <= to_datetime(end_date.day))
               ELSE df2
    IN df3

get_historical_data(city, start_date, end_date) ==
  /\ sres' = [op |-> "historical", city |-> city, start_date |-> start_date,
              end_date |-> end_date,
              result |-> historical(historical_data_file, city, start_date, end_date)]
  /\ UNCHANGED <<current_data_file, historical_data_file, analysis_file, now, stored>>
  /\ UNCHANGED <<fvars, mvars, wvars, cvars>>

\* df.tail(limit)
tail(df, limit) ==
  IF limit = 0 THEN <<>>
  ELSE IF limit >= Len(df) THEN df
  ELSE SubSeq(df, Len(df) - limit + 1, Len(df))

get_recent_weather(city, limit) ==
  /\ sres' = [op |-> "recent", city |-> city, limit |-> limit,
              result |-> tail(IF Truthy(city)
                              THEN filter_city(current_data_file, city)
                              ELSE current_data_file, limit)]
  /\ UNCHANGED <<current_data_file, historical_data_file, analysis_file, now, stored>>
  /\ UNCHANGED <<fvars, mvars, wvars, cvars>>

----------------------------------------------------------------------------
\* get_weather_analysis

Column(df, c) == [i \in DOMAIN df |-> df[i][c]]

Squares(xs) == [i \in DOMAIN xs |-> xs[i] * xs[i]]

SeqMin(xs) == CHOOSE x \in Range(xs) : \A y \in Range(xs) : x <= y

SeqMax(xs) == CHOOSE x \in Range(xs) : \A y \in Range(xs) : x >= y

\* Series.mean(), rounded to one decimal; NaN on an empty series
mean(xs) == IF xs = <<>> THEN NaN ELSE RoundDiv(Sum(xs), Len(xs))

\* Series.std(): the sample standard deviation (ddof = 1), rounded to one
\* decimal; NaN when there are fewer than 2 values
std(xs) ==
  IF Len(xs) < 2 THEN NaN
  ELSE LET n == Len(xs)
           A == n * Sum(Squares(xs)) - Sum(xs) * Sum(xs)
           B == n * (n - 1)
       IN CHOOSE s \in 0..(SeqMax(xs) - SeqMin(xs)) :
            /\ (s = 0 \/ (2 * s - 1) * (2 * s - 1) * B <= 4 * A)
            /\ 4 * A < (2 * s + 1) * (2 * s + 1) * B

describe(xs) ==
  [mean |-> mean(xs),
   min |-> IF xs = <<>> THEN NaN ELSE SeqMin(xs),
   max |-> IF xs = <<>> THEN NaN ELSE SeqMax(xs),
   std |-> std(xs)]

\* df['description'].value_counts().to_dict()
value_counts(xs) ==
  {[value |-> v, count |-> Cardinality({i \in DOMAIN xs : xs[i] = v})] : v \in Range(xs)}

analysis_of(df) ==
  [written |-> TRUE,
   temperature |-> describe(Column(df, "temperature")),
   humidity |-> describe(Column(df, "humidity")),
   wind_speed |-> describe(Column(df, "wind_speed")),
   pressure |-> describe(Column(df, "pressure")),
   weather_conditions |-> value_counts(Column(df, "description")),
   data_points |-> Len(df),
   date_range |-> IF df = <<>> THEN [start |-> NaN, end |-> NaN]
                  ELSE [start |-> strftime_date(SeqMin(Column(df, "date"))),
                        end |-> strftime_date(SeqMax(Column(df, "date")))]]

NoDataMsg == "No data available for the specified period"

\* the rows left after the city filter and the trailing-window filter
analysis_rows(file, city, days, t) ==
  LET df0 == read_historical(file)
      df1 == IF Truthy(city) THEN filter_city(df0, city) ELSE df0
      start_date == t - days * TicksPerDay
  IN SelectSeq(df1, LAMBDA r : r.date >= start_date)

get_weather_analysis_nocheck(city, days) ==
  LET df == analysis_rows(historical_data_file, city, days, now)
  IN /\ analysis_file' = analysis_of(df)
     /\ sres' = [op |-> "analysis", city |-> city, days |-> days,
                 status |-> "success", message |-> "", data |-> analysis_of(df)]
     /\ UNCHANGED <<current_data_file, historical_data_file, now, stored>>
     /\ UNCHANGED <<fvars, mvars, wvars, cvars>>

get_weather_analysis(city, days) ==
  LET df == analysis_rows(historical_data_file, city, days, now)
  IN /\ IF Len(df) = 0
        THEN /\ analysis_file' = analysis_file
             /\ sres' = [op |-> "analysis", city |-> city, days |-> days,
                         status |-> "error", message |-> NoDataMsg,
                         data |-> [written |-> FALSE, data_points |-> 0]]
        ELSE /\ analysis_file' = analysis_of(df)
             /\ sres' = [op |-> "analysis", city |-> city, days |-> days,
                         status |-> "success", message |-> "", data |-> analysis_of(df)]
     /\ UNCHANGED <<current_data_file, historical_data_file, now, stored>>
     /\ UNCHANGED <<fvars, mvars, wvars, cvars>>

\* time passes
Tick ==
  /\ now < MaxTime
  /\ now' = now + 1
  /\ UNCHANGED <<current_data_file, historical_data_file, analysis_file, sres, stored>>
  /\ UNCHANGED <<fvars, mvars, wvars, cvars>>

Limits == {1, 10}

DayArgs == {0, 30}

StoreNext ==
  \/ \E weather_data \in Payloads : store_current_weather(weather_data)
  \/ \E city \in CityArgs, start_date \in DateArgs, end_date \in DateArgs :
       get_historical_data(city, start_date, end_date)
  \/ \E city \in CityArgs, limit \in Limits : get_recent_weather(city, limit)
  \/ \E city \in CityArgs, days \in DayArgs : get_weather_analysis(city, days)
  \/ Tick

----------------------------------------------------------------------------
\* app.py: the routes that fetch from the OpenWeather API

\* alert thresholds of get_weather_alerts
HighTemp == 30
LowTemp == 10
HighHumidity == 80
StrongWind == 20

\* how a fetch may end (with the key set): both requests answered 200, or
\* one of them answered 401, another non-200 status, the network failed, or
\* a body was not JSON
FetchOutcomes ==
  {"ok", "current_401", "current_error", "forecast_401", "forecast_error",
   "network_error", "bad_json"}

\* current conditions as the API reports them: temperatures and wind speed
\* (m/s) in hundredths, humidity in percent, pressure in hPa
CurrentSamples ==
  {[name |-> "Paris", country |-> "FR", dt |-> 0, temp |-> 3146, feels_like |-> 3304,
    humidity |-> 85, pressure |-> 1009, speed |-> 650,
    description |-> "light rain", icon |-> "10d"],
   [name |-> "Oslo", country |-> "NO", dt |-> 1, temp |-> 512, feels_like |-> 285,
    humidity |-> 60, pressure |-> 1021, speed |-> 210,
    description |-> "clear sky", icon |-> "01d"],
   [name |-> "Paris", country |-> "FR", dt |-> 1, temp |-> 2155, feels_like |-> 2120,
    humidity |-> 55, pressure |-> 1013, speed |-> 300,
    description |-> "clear sky", icon |-> "01d"]}

ForecastItem(dt, temp, description) ==
  [dt |-> dt, temp |-> temp, humidity |-> 70, pressure |-> 1015, speed |-> 425,
   description |-> description, icon |-> "02d"]

\* forecast['list'] as the API reports it
ForecastSamples ==
  {<<>>,
   <<ForecastItem(0, 1825, "few clouds"), ForecastItem(1, 2085, "clear sky"),
     ForecastItem(TicksPerDay, 1640, "light rain")>>}

\* get_weather_data: what the caller gets back
get_weather_data(key, outcome, current, forecast) ==
  IF ~key THEN [error |-> "API_KEY_MISSING", message |-> "OpenWeather API key is not set"]
  ELSE IF outcome \in {"current_401", "forecast_401"}
    THEN [error |-> "API_KEY_INVALID", message |-> "Invalid OpenWeather API key"]
  ELSE IF outcome \in {"current_error", "forecast_error"}
    THEN [error |-> "API_ERROR", message |-> "Error fetching weather data"]
  ELSE IF outcome = "network_error"
    THEN [error |-> "NETWORK_ERROR", message |-> "Network error"]
  ELSE IF outcome = "bad_json"
    THEN [error |-> "UNKNOWN_ERROR", message |-> "An unexpected error occurred"]
  ELSE [current |-> current, forecast |-> [list |-> forecast]]

\* the truth value of a dict: it is not empty
TruthyDict(d) == DOMAIN d # {}

\* round(x * 3.6, 1) of a speed in hundredths of m/s: km/h in tenths
kmh(speed) == RoundDiv(speed * 36, 100)

WeatherResponse(op, code, status, message, data, failed) ==
  [op |-> op, code |-> code, status |-> status, message |-> message,
   data |-> data, fetch_failed |-> failed]

\* the payload get_current_weather builds and stores, numbers in tenths
current_payload(current) ==
  [city |-> current.name, temperature |-> RoundDiv(current.temp, 10),
   feels_like |-> RoundDiv(current.feels_like, 10),
   humidity |-> 10 * current.humidity, pressure |-> 10 * current.pressure,
   wind_speed |-> kmh(current.speed),
   description |-> current.description, icon |-> current.icon,
   country |-> current.country, timestamp |-> current.dt]

get_current_weather(outcome, current, forecast) ==
  LET weather_data == get_weather_data(api_key, outcome, current, forecast)
  IN /\ IF "current" \notin DOMAIN weather_data
        THEN /\ wresp' = WeatherResponse("current", 500, "error",
                           "Error parsing weather data. Please check the API response format.",
                           <<>>, TRUE)
             /\ UNCHANGED <<current_data_file, historical_data_file, stored, sres>>
        ELSE LET data == current_payload(weather_data.current)
             IN /\ Len(stored) < MaxStore
                /\ current_data_file' =
                     Append(current_data_file,
                            [timestamp |-> now, city |-> data.city,
                             temperature |-> data.temperature,
                             feels_like |-> data.feels_like,
                             humidity |-> data.humidity,
                             pressure |-> data.pressure,
                             wind_speed |-> data.wind_speed,
                             description |-> data.description,
                             icon |-> data.icon])
                /\ historical_data_file' =
                     Append(historical_data_file,
                            [date |-> strftime_date(now), city |-> data.city,
                             temperature |-> data.temperature,
                             humidity |-> data.humidity,
                             wind_speed |-> data.wind_speed,
                             pressure |-> data.pressure,
                             description |-> data.description])
                /\ stored' = Append(stored, [payload |-> data, at |-> now])
                /\ sres' = [op |-> "store", ok |-> TRUE]
                /\ wresp' = WeatherResponse("current", 200, "success", "",
                              <<data>>, FALSE)
     /\ UNCHANGED <<analysis_file, now, api_key>>
     /\ UNCHANGED <<fvars, mvars, cvars>>

\* one entry of daily_forecasts
daily_entry(item) ==
  [date |-> strftime_date(item.dt), temperature |-> RoundDiv(item.temp, 10),
   humidity |-> item.humidity, pressure |-> item.pressure,
   wind_speed |-> kmh(item.speed), description |-> item.description,
   icon |-> item.icon]

RECURSIVE group_by_day(_, _)
\* the loop over forecast['list']: an item of a new day starts an entry, an
\* item of the same day replaces the values of the entry
group_by_day(items, acc) ==
  IF items = <<>> THEN acc
  ELSE LET e == daily_entry(Head(items))
       IN IF acc # <<>> /\ acc[Len(acc)].date = e.date
          THEN group_by_day(Tail(items), [acc EXCEPT ![Len(acc)] = e])
          ELSE group_by_day(Tail(items), Append(acc, e))

\* the uncaught KeyError of a handler: the server's own 500 page
Fault(op, failed) == WeatherResponse(op, 500, "fault", "KeyError", <<>>, failed)

get_weather_forecast(outcome, current, forecast) ==
  LET weather_data == get_weather_data(api_key, outcome, current, forecast)
      failed == "error" \in DOMAIN weather_data
  IN /\ wresp' =
          IF TruthyDict(weather_data)
          THEN IF "forecast" \notin DOMAIN weather_data
               THEN Fault("forecast", failed)
               ELSE WeatherResponse("forecast", 200, "success", "",
                                    group_by_day(weather_data.forecast.list, <<>>), failed)
          ELSE WeatherResponse("forecast", 500, "error",
                               "Failed to fetch forecast data", <<>>, failed)
     /\ UNCHANGED <<api_key>>
     /\ UNCHANGED <<fvars, mvars, svars, cvars>>

\* the alerts get_weather_alerts derives from the current conditions
alerts_of(current) ==
  LET temperature ==
        IF current.temp > HighTemp * 100
        THEN <<[type |-> "warning", message |-> "High temperature alert"]>>
        ELSE IF current.temp < LowTemp * 100
        THEN <<[type |-> "info", message |-> "Low temperature alert"]>>
        ELSE <<>>
      humidity ==
        IF current.humidity > HighHumidity
        THEN <<[type |-> "warning", message |-> "High humidity alert"]>>
        ELSE <<>>
      wind ==
        IF current.speed * 36 > StrongWind * 1000
        THEN <<[type |-> "warning", message |-> "Strong wind alert"]>>
        ELSE <<>>
      alerts == temperature \o humidity \o wind
  IN IF alerts = <<>>
     THEN <<[type |-> "success", message |-> "No weather alerts at this time."]>>
     ELSE alerts

get_weather_alerts(outcome, current, forecast) ==
  LET weather_data == get_weather_data(api_key, outcome, current, forecast)
      failed == "error" \in DOMAIN weather_data
  IN /\ wresp' =
          IF TruthyDict(weather_data)
          THEN IF "current" \notin DOMAIN weather_data
               THEN Fault("alerts", failed)
               ELSE WeatherResponse("alerts", 200, "success", "",
                                    alerts_of(weather_data.current), failed)
          ELSE WeatherResponse("alerts", 500, "error",
                               "Failed to fetch weather alerts", <<>>, failed)
     /\ UNCHANGED <<api_key>>
     /\ UNCHANGED <<fvars, mvars, svars, cvars>>

WeatherIdle ==
  /\ api_key = TRUE
  /\ wresp = WeatherResponse("none", 0, "none", "", <<>>, FALSE)

WeatherInit ==
  /\ api_key \in BOOLEAN
  /\ wresp = WeatherResponse("none", 0, "none", "", <<>>, FALSE)

ThreadsIdle ==
  /\ init_thread = [pc |-> "idle"]
  /\ predict_thread = [pc |-> "idle"]

WeatherNext ==
  \/ \E outcome \in FetchOutcomes, current \in CurrentSamples, forecast \in ForecastSamples :
       get_current_weather(outcome, current, forecast)
  \/ \E outcome \in FetchOutcomes, current \in CurrentSamples, forecast \in ForecastSamples :
       get_weather_forecast(outcome, current, forecast)
  \/ \E outcome \in FetchOutcomes, current \in CurrentSamples, forecast \in ForecastSamples :
       get_weather_alerts(outcome, current, forecast)
  \/ Tick

----------------------------------------------------------------------------
\* app.py: /api/initialize and /api/predict served by concurrent request
\* threads that share the global model

CsvOk == csv.readable /\ "date" \in csv.cols

CsvError == IF csv.readable THEN "KeyError" ELSE "FileNotFoundError"

\* initialize_model up to model = WeatherPredictionModel(): the global is
\* bound to a new, untrained object; a predict thread that holds the object
\* bound before keeps that object
init_begin(plot_fail_at) ==
  /\ init_thread.pc = "idle"
  /\ init_called' = TRUE
  /\ UNCHANGED <<csv, init_succeeded>>
  /\ UNCHANGED <<fvars, svars, wvars>>
  /\ IF ~CsvOk
     THEN /\ resp' = Response("initialize", 500, "error", CsvError, TRUE, FALSE, NoOutput)
          /\ UNCHANGED <<model, init_thread, predict_thread>>
     ELSE /\ model' = [none |-> FALSE, bank |-> EmptyBank]
          /\ init_thread' = [pc |-> "train", j |-> 1, df |-> read_csv(csv),
                             plot_fail_at |-> plot_fail_at]
          /\ predict_thread' =
               IF predict_thread.pc = "loop" /\ predict_thread.current
               THEN [predict_thread EXCEPT !.current = FALSE, !.bank = model.bank]
               ELSE predict_thread
          /\ resp' = resp

\* one pass of the loop of model.train(df), storing into the object the
\* global is bound to, and the response after the last pass or an exception
init_train_step ==
  /\ init_thread.pc = "train"
  /\ UNCHANGED <<csv, init_called, predict_thread>>
  /\ UNCHANGED <<fvars, svars, wvars>>
  /\ LET target == feature_columns[init_thread.j]
         t == train_target(model.bank, init_thread.df, target,
                           init_thread.plot_fail_at = target)
     IN /\ model' = [model EXCEPT !.bank = t.bank]
        /\ IF t.exc # None
           THEN /\ resp' = Response("initialize", 500, "error", t.exc, TRUE, TRUE, NoOutput)
                /\ init_thread' = [pc |-> "idle"]
                /\ init_succeeded' = init_succeeded
           ELSE IF init_thread.j = Len(feature_columns)
           THEN /\ resp' = Response("initialize", 200, "success",
                                    "Model initialized and trained successfully",
                                    TRUE, TRUE, NoOutput)
                /\ init_thread' = [pc |-> "idle"]
                /\ init_succeeded' = TRUE
           ELSE /\ init_thread' = [init_thread EXCEPT !.j = @ + 1, !.df = t.df]
                /\ UNCHANGED <<resp, init_succeeded>>

\* predict: if model is None
predict_check ==
  /\ predict_thread.pc \in {"idle", "done"}
  /\ UNCHANGED <<model, csv, init_called, init_succeeded, init_thread>>
  /\ UNCHANGED <<fvars, svars, wvars>>
  /\ IF model.none
     THEN /\ resp' = Response("predict", 400, "error", NotInitializedMsg,
                              FALSE, FALSE, NoOutput)
          /\ predict_thread' = [pc |-> "idle"]
     ELSE /\ resp' = resp
          /\ predict_thread' = [pc |-> "checked"]

\* predict: the table is read and the global is loaded for the call of
\* predict_next_day
predict_load(raw) ==
  /\ predict_thread.pc = "checked"
  /\ UNCHANGED <<model, csv, init_called, init_succeeded, init_thread>>
  /\ UNCHANGED <<fvars, svars, wvars>>
  /\ IF ~CsvOk
     THEN /\ resp' = Response("predict", 500, "error", CsvError, TRUE, FALSE, NoOutput)
          /\ predict_thread' = [pc |-> "idle"]
     ELSE /\ resp' = resp
          /\ predict_thread' = [pc |-> "loop", j |-> 1, df |-> read_csv(csv), raw |-> raw,
                                acc |-> NoOutput, current |-> TRUE, bank |-> EmptyBank,
                                looked |-> FALSE, read |-> EmptyBank]

\* one pass of the loop of predict_next_day on the object the thread holds,
\* and the response after the last pass or an exception
predict_step ==
  /\ predict_thread.pc = "loop"
  /\ UNCHANGED <<model, csv, init_called, init_succeeded, init_thread>>
  /\ UNCHANGED <<fvars, svars, wvars>>
  /\ LET self == IF predict_thread.current THEN model.bank ELSE predict_thread.bank
         target == feature_columns[predict_thread.j]
         r == prepare_data(predict_thread.df, target, LagDepth)
         looks == r.exc = None /\ Len(r.X.index) > 0
         p == predict_target(self, predict_thread.df, target, predict_thread.raw,
                             predict_thread.acc)
         seen == [predict_thread EXCEPT
                    !.looked = @ \/ looks,
                    !.read = IF looks THEN self ELSE @,
                    !.acc = p.acc, !.df = p.df]
     IN IF p.exc # None
        THEN /\ resp' = Response("predict", 500, "error", p.exc, TRUE, TRUE, NoOutput)
             /\ predict_thread' = [seen EXCEPT !.pc = "done"]
        ELSE IF predict_thread.j = Len(feature_columns)
        THEN /\ resp' = Response("predict", 200, "success", "", TRUE, TRUE, p.acc)
             /\ predict_thread' = [seen EXCEPT !.pc = "done"]
        ELSE /\ resp' = resp
             /\ predict_thread' = [seen EXCEPT !.j = @ + 1]

ConcurrentNext ==
  \/ \E plot_fail_at \in PlotFailures : init_begin(plot_fail_at)
  \/ init_train_step
  \/ predict_check
  \/ \E raw \in RawPreds : predict_load(raw)
  \/ predict_step

----------------------------------------------------------------------------
\* The Feature Builder on its own: a table and a lag depth are chosen, then
\* prepare_data is called on that DataFrame object for one target after
\* another (as train and predict_next_day do).

FeatureIdle ==
  /\ fdf = MakeTable(0, AllCols, 0)
  /\ fk = LagDepth
  /\ fout = [target |-> None, exc |-> "nocall", X |-> NoFrame, y |-> <<>>]

ForecastIdle ==
  /\ model = NoModel
  /\ csv = Unreadable
  /\ resp = Response("none", 0, "none", "", FALSE, FALSE, NoOutput)
  /\ init_called = FALSE
  /\ init_succeeded = FALSE

FeatureInit ==
  /\ ForecastIdle
  /\ StoreIdle
  /\ WeatherIdle
  /\ ThreadsIdle
  /\ fdf \in Tables(MaxRows)
  /\ fk \in 1..MaxLag
  /\ fout = [target |-> None, exc |-> "nocall", X |-> NoFrame, y |-> <<>>]

CallPrepareData(target) ==
  LET r == prepare_data(fdf, target, fk)
  IN /\ fout' = [target |-> target, exc |-> r.exc, X |-> r.X, y |-> r.y]
     /\ fdf' = r.df
     /\ fk' = fk
     /\ UNCHANGED <<mvars, svars, wvars, cvars>>

FeatureNext == \E target \in Attrs : CallPrepareData(target)

SpecFeature == FeatureInit /\ [][FeatureNext]_vars

\* The forecast routes on their own
ForecastOnlyInit ==
  /\ FeatureIdle
  /\ StoreIdle
  /\ WeatherIdle
  /\ ThreadsIdle
  /\ ForecastInit

SpecForecast == ForecastOnlyInit /\ [][ForecastNext]_vars

\* The historical store on its own
StoreOnlyInit ==
  /\ FeatureIdle
  /\ ForecastIdle
  /\ WeatherIdle
  /\ ThreadsIdle
  /\ StoreInit

SpecStore == StoreOnlyInit /\ [][StoreNext]_vars

\* The fetching routes, with the store they feed
WeatherOnlyInit ==
  /\ FeatureIdle
  /\ ForecastIdle
  /\ StoreInit
  /\ WeatherInit
  /\ ThreadsIdle

SpecWeather == WeatherOnlyInit /\ [][WeatherNext]_vars

\* /api/initialize and /api/predict under the threaded server
ConcurrentInit ==
  /\ FeatureIdle
  /\ ForecastInit
  /\ StoreIdle
  /\ WeatherIdle
  /\ ThreadsIdle

SpecConcurrent == ConcurrentInit /\ [][ConcurrentNext]_vars

\* The whole service
Init ==
  /\ FeatureIdle
  /\ ForecastInit
  /\ StoreInit
  /\ WeatherInit
  /\ ThreadsIdle

Next == ForecastNext \/ StoreNext \/ WeatherNext \/ ConcurrentNext

Spec == Init /\ [][Next]_vars

\* C1: as long as no /api/initialize request has been made, /api/predict
\* answers the 'Model not initialized' error with HTTP 400 and no predictions
\* mapping; it reads neither the observation table nor the regressor bank.
C1_PredictBeforeInitialize ==
  (resp.op = "predict" /\ ~init_called) =>
    /\ resp.code = 400
    /\ resp.status = "error"
    /\ resp.message = NotInitializedMsg
    /\ ~resp.has_predictions
    /\ resp.predictions = {}
    /\ ~resp.read_csv
    /\ ~resp.bank_called
    /\ model = NoModel

\* a predict before any initialize, with a table that could have been used
C1_Witness ==
  /\ resp.op = "predict"
  /\ ~init_called
  /\ csv.readable
  /\ AllCols \subseteq csv.cols
  /\ Len(csv.rows) > LagDepth

\* C2: predict gets past the not-initialized check only after an initialize
\* call whose training completed for every tracked attribute; a failed
\* initialize reports an error and leaves an uninitialized service
\* uninitialized.
C2_TrainedOnlyAfterSuccess ==
  /\ (~model.none) => init_succeeded
  /\ (resp.op = "initialize" /\ resp.status = "error") => resp.code = 500

\* the table of the file holds every column the routes use
CompleteTable(file) == file.readable /\ AllCols \subseteq file.cols

\* C5: predict_next_day feeds each stored model the most recent feature row,
\* scaled with that attribute's scaler; the row describes the step after the
\* last observation: its lag_i entries are the values of the i-th most
\* recent observation (lag_1: the last one). The result is rounded to 2
\* decimals.
C5_NextStepFeatures ==
  [][(\E raw \in RawPreds : predict(raw)) =>
       (resp'.status = "success" =>
          /\ \A p \in resp'.predictions :
                /\ p.value % 10 = 0
                /\ \E f \in resp'.fed : f.target = p.target
          /\ \A f \in resp'.fed :
                /\ f.scaler.target = f.target
                /\ f.model.target = f.target
                /\ \A j \in DOMAIN f.columns :
                      f.values[j] =
                        csv.rows[Len(csv.rows) + 1 - f.columns[j][2]][f.columns[j][1]])]_vars

\* C6: with fewer than k+1 rows in the observation table neither train nor
\* predict_next_day throws: train stores no model, predict_next_day returns
\* no prediction.
C6_ShortTableNoThrow ==
  [][(CompleteTable(csv) /\ Len(csv.rows) < LagDepth + 1) =>
       /\ (\E pf \in PlotFailures : initialize_model(pf)) =>
             /\ resp'.status = "success"
             /\ model'.bank = EmptyBank
       /\ ((\E raw \in RawPreds : predict(raw)) /\ ~model.none) =>
             /\ resp'.status = "success"
             /\ resp'.predictions = {}]_vars

\* the attributes predict_next_day can predict: a stored model and scaler,
\* and enough history for a feature row
Predictable(bank, file) ==
  {a \in Attrs : /\ Has(bank.models, a)
                 /\ Has(bank.scalers, a)
                 /\ prepare_data(read_csv(file), a, LagDepth).X.index # <<>>}

\* C7: when only some tracked attributes are predictable, predict returns a
\* partial mapping: a value for each predictable attribute, the others
\* omitted, and the call does not fail.
C7_PartialMapping ==
  [][((\E raw \in RawPreds : predict(raw)) /\ ~model.none /\ CompleteTable(csv)) =>
       /\ resp'.status = "success"
       /\ {p.target : p \in resp'.predictions} = Predictable(model.bank, csv)]_vars

\* the table as read: no cell of the observation columns is missing
NoMissing(df) == \A t \in DOMAIN df.rows : \A c \in df.cols : df.rows[t][c] # NaN

\* C3: for an observation sequence of length n without missing values and a
\* lag depth k, prepare_data returns max(0, n - k) feature rows for every
\* target: none when n < k + 1, otherwise exactly the rows at positions
\* k+1..n, and y holds the target's values at those positions.
C3_FeatureRowCount ==
  (fout.exc # "nocall" /\ Attrs \subseteq fdf.cols /\ NoMissing(fdf)) =>
    LET n == Len(fdf.rows)
        m == Max(0, n - fk)
    IN /\ fout.exc = None
       /\ Len(fout.X.index) = m
       /\ Len(fout.X.values) = m
       /\ (n < fk + 1 => fout.X.index = <<>>)
       /\ fout.X.index = [r \in 1..m |-> fk + r]
       /\ fout.y = [r \in 1..m |-> fdf.rows[fk + r][fout.target]]

\* the spec's scenario: 10 observations, k = 7, 3 feature rows
C3_Witness ==
  /\ fout.exc = None
  /\ NoMissing(fdf)
  /\ Len(fdf.rows) = 10
  /\ fk = LagDepth
  /\ fout.X.index = <<8, 9, 10>>
  /\ fout.target = "humidity"

\* C4: for any lag depth k, each feature row holds lag_1..lag_k of each of
\* the 5 tracked attributes (exactly 5*k feature columns), and <attr>_lag_i
\* of the row at position t is the value of <attr> at position t - i.
C4_AllLagColumns ==
  (fout.exc = None) =>
    \A r \in DOMAIN fout.X.index :
      /\ Len(fout.X.columns) = 5 * fk
      /\ Len(fout.X.values[r]) = 5 * fk
      /\ \A a \in Attrs : \A i \in 1..fk :
            \E j \in DOMAIN fout.X.columns :
              /\ fout.X.columns[j] = <<a, i>>
              /\ fout.X.values[r][j] = fdf.rows[fout.X.index[r] - i][a]

\* the row a successful store call leaves in the historical log
HistoricalRowOf(c) ==
  [date |-> c.at \div TicksPerDay, city |-> c.payload.city,
   temperature |-> c.payload.temperature, humidity |-> c.payload.humidity,
   wind_speed |-> c.payload.wind_speed, pressure |-> c.payload.pressure,
   description |-> c.payload.description]

\* C8: the logs are append-only and not deduplicated: after any sequence of
\* store, history, recent and summary operations both logs hold exactly one
\* row per successful store call, in call order (the same payload stored
\* twice gives two rows); queries and summaries add, change or remove no row.
C8_AppendOnly ==
  /\ Len(historical_data_file) = Len(stored)
  /\ Len(current_data_file) = Len(stored)
  /\ \A i \in DOMAIN stored :
       /\ historical_data_file[i] = HistoricalRowOf(stored[i])
       /\ current_data_file[i].timestamp = stored[i].at
       /\ \A key \in PayloadKeys : current_data_file[i][key] = stored[i].payload[key]

\* the same payload stored twice on one day, then a query or a summary
C8_Witness ==
  /\ Len(stored) = 2
  /\ stored[1].payload = stored[2].payload
  /\ Len(historical_data_file) = 2
  /\ historical_data_file[1] = historical_data_file[2]
  /\ sres.op \in {"historical", "recent", "analysis"}

\* C9: get_historical_data(city, start_date, end_date) returns exactly the
\* stored records r with (city not given or r.city = city) and (start_date
\* not given or r.date >= start_date) and (end_date not given or r.date <=
\* end_date), both bounds inclusive, in the order of the store (for dates
\* that parse).
C9_HistoricalQuery ==
  (sres.op = "historical" /\ sres.start_date.kind # "invalid"
                          /\ sres.end_date.kind # "invalid") =>
    LET H == historical_data_file
        M == {i \in DOMAIN H :
                /\ (sres.city \in {None, ""} \/ H[i].city = sres.city)
                /\ (sres.start_date.kind # "date" \/ H[i].date >= sres.start_date.day)
                /\ (sres.end_date.kind # "date" \/ H[i].date <= sres.end_date.day)}
        idx == SeqOfSet(M)
    IN /\ Len(sres.result) = Cardinality(M)
       /\ \A j \in DOMAIN sres.result :
            /\ sres.result[j].date = H[idx[j]].date * TicksPerDay
            /\ \A key \in DOMAIN H[idx[j]] \ {"date"} : sres.result[j][key] = H[idx[j]][key]

\* a query with both bounds whose result holds a record dated on a bound and
\* leaves another record out
C9_Witness ==
  /\ sres.op = "historical"
  /\ sres.start_date.kind = "date"
  /\ sres.end_date.kind = "date"
  /\ sres.city = "Paris"
  /\ sres.result # <<>>
  /\ Len(sres.result) < Len(historical_data_file)
  /\ \E j \in DOMAIN sres.result : sres.result[j].date = sres.end_date.day * TicksPerDay

\* no stored record passes the city filter and the trailing-window filter
FilteredEmpty(city, days) ==
  ~ \E i \in DOMAIN historical_data_file :
       /\ (city \in {None, ""} \/ historical_data_file[i].city = city)
       /\ historical_data_file[i].date * TicksPerDay >= now - days * TicksPerDay

\* C10: get_weather_analysis(city, days) returns the error result 'No data
\* available for the specified period' whenever no record is left after the
\* city filter and the trailing-window filter; it then computes no
\* statistics and does not write the summary artifact. (The steps that keep
\* the clock and end with sres.op = "analysis" are the calls of
\* get_weather_analysis.)
C10_NoDataResult ==
  [][(sres'.op = "analysis" /\ now' = now /\ FilteredEmpty(sres'.city, sres'.days)) =>
       /\ sres'.status = "error"
       /\ sres'.message = NoDataMsg
       /\ ~sres'.data.written
       /\ DOMAIN sres'.data = {"written", "data_points"}
       /\ analysis_file' = analysis_file]_vars

\* records exist and an earlier summary was written, but none is in range
C10_Witness ==
  /\ sres.op = "analysis"
  /\ sres.status = "error"
  /\ sres.message = NoDataMsg
  /\ historical_data_file # <<>>
  /\ analysis_file.written

\* the attributes get_weather_analysis describes
SummaryAttrs == {"temperature", "humidity", "wind_speed", "pressure"}

\* C12: every success result of get_weather_analysis holds only defined
\* statistics: mean, min, max and std of temperature, humidity, wind_speed
\* and pressure are defined for every non-empty filtered set, a set of one
\* record included.
C12_DefinedStatistics ==
  (sres.op = "analysis" /\ sres.status = "success") =>
    \A a \in SummaryAttrs :
      /\ sres.data[a].mean # NaN
      /\ sres.data[a].min # NaN
      /\ sres.data[a].max # NaN
      /\ sres.data[a].std # NaN

\* C13: whenever get_weather_data fails (missing or invalid key, non-200
\* response, network error) /api/weather/forecast and /api/weather/alerts
\* take their error branch and return a structured result with status
\* 'error'; they never read 'forecast' or 'current' of a failed fetch, so no
\* uncaught fault occurs.
C13_FetchFailureHandled ==
  (wresp.op \in {"forecast", "alerts"} /\ wresp.fetch_failed) =>
    /\ wresp.status = "error"
    /\ wresp.code = 500
    /\ wresp.message \in {"Failed to fetch forecast data", "Failed to fetch weather alerts"}

\* all tracked attributes have a stored model and a stored scaler
CompleteBank(bank) ==
  \A a \in Attrs : Has(bank.models, a) /\ Has(bank.scalers, a)

\* C11: under any interleaving of an /api/initialize request with
\* /api/predict requests, every predict that passed the not-initialized check
\* reads a Regressor Bank in which all tracked attributes have a stored model
\* and scaler, never a bank with only some or none of the attributes trained.
C11_WholesaleReplacement ==
  (predict_thread.pc \in {"loop", "done"} /\ predict_thread.looked) =>
    CompleteBank(predict_thread.read)

====
